---- MODULE Spec2Model ----
(***************************************************************************)
(* Model of the InsightBrew page: the Index page (dataset upload, column   *)
(* profiling, automatic chart generation), the AutoDashboard (forecast)    *)
(* and the floating ChatInterface (completion call and chart merge).       *)
(*                                                                         *)
(* Encodings                                                               *)
(*   - a JS string that may be undefined is a string, UNDEF when absent;   *)
(*   - a JS array that may be undefined is an option: None when absent,    *)
(*     Some(s) when it is the array s;                                     *)
(*   - a data point of a chart is its projection on the chart's keys:      *)
(*     x is item[xKey] (a label), y is Number(item[yKey]) || 0 counted in  *)
(*     hundredths, isForecast is the truthiness of item.isForecast;        *)
(*   - a label is [kind, pre, num, suf]: the number num when kind is       *)
(*     "num"; the text pre ++ num ++ suf when kind is "str", with num the  *)
(*     first run of digits (NoDigits when there is none).                  *)
(***************************************************************************)
EXTENDS Integers, Sequences, FiniteSets, TLC

VARIABLES
    apiKey,              \* window.GEMINI_API_KEY || import.meta.env.VITE_GEMINI_API_KEY, NoApiKey when falsy
    uploadedData,        \* Index: name of the loaded dataset, NoData when null
    columns,             \* Index: ColumnInfo[]
    charts,              \* Index: ChartConfig[] (the dashboard chart set)
    isGeneratingCharts,  \* Index: spinner flag
    timers,              \* pending setTimeout callbacks of Index, in scheduling order
    messages,            \* ChatInterface: conversation
    isLoading,           \* ChatInterface
    error,               \* ChatInterface: last error text, "null" when none
    inflight,            \* ChatInterface: the handleSendMessage call awaiting its completion
    forecastingChartId,  \* AutoDashboard
    forecasts,           \* history: the number of forecasts run so far
    lastOp,              \* history: the handler that ran last, with its arguments
    prevCharts           \* history: the chart set before the last forecast or completion

vars == <<apiKey, uploadedData, columns, charts, isGeneratingCharts, timers, messages,
          isLoading, error, inflight, forecastingChartId, forecasts, lastOp, prevCharts>>

----------------------------------------------------------------------------
(* Bounds of the model *)

MaxSends == 1
MaxForecasts == 2
MaxTimers == 1
MaxBatch == 2

----------------------------------------------------------------------------
(* Values *)

UNDEF == "undefined"
NoData == "null"
None == <<>>
Some(s) == <<s>>
IsSome(o) == Len(o) = 1
Get(o) == o[1]

NoDigits == -1

RECURSIVE SeqSum(_)
SeqSum(s) == IF s = <<>> THEN 0 ELSE s[1] + SeqSum(Tail(s))

\* the sequences over S of length at most n
RECURSIVE SeqsUpTo(_, _)
SeqsUpTo(S, n) ==
    IF n = 0 THEN {<<>>}
    ELSE LET shorter == SeqsUpTo(S, n - 1)
         IN  shorter \cup {Append(q, e) : q \in {t \in shorter : Len(t) = n - 1}, e \in S}

SelectIdx(s, Test(_)) == {i \in 1..Len(s) : Test(s[i])}

Min2(a, b) == IF a < b THEN a ELSE b
Max2(a, b) == IF a > b THEN a ELSE b

NumLabel(n) == [kind |-> "num", pre |-> "", num |-> n, suf |-> ""]
StrLabel(p, n, s) == [kind |-> "str", pre |-> p, num |-> n, suf |-> s]

Point(lx, vy) == [x |-> lx, y |-> vy, isForecast |-> FALSE]

OtherLabel == [kind |-> "other", pre |-> "", num |-> NoDigits, suf |-> ""]

\* an insight string: its wording k and the numbers and the label it quotes
InsightAt(kind, pa, pb, lab) == [k |-> kind, a |-> pa, b |-> pb, l |-> lab]
Insight(kind, pa, pb) == InsightAt(kind, pa, pb, OtherLabel)
Custom(n) == Insight("custom", n, 0)

----------------------------------------------------------------------------
(* ChartConfig and the proposals a completion may carry *)

Chart(cid, ctype, ctitle, cdesc, cdata, cx, cy, cins) ==
    [id |-> cid, type |-> ctype, title |-> ctitle, description |-> cdesc,
     data |-> cdata, xKey |-> cx, yKey |-> cy, colorKey |-> UNDEF,
     insights |-> cins]

\* a null entry of the charts array of a completion
NullEntry == [null |-> TRUE]
IsNullEntry(e) == "null" \in DOMAIN e

Quarter(n, v) == Point(StrLabel("Q", n, ""), v)

\* values 10, 20, 30
SeriesA == <<Quarter(1, 1000), Quarter(2, 2000), Quarter(3, 3000)>>
\* values 100, 200
SeriesB == <<Quarter(1, 10000), Quarter(2, 20000)>>
\* a single point
SeriesOne == <<Point(StrLabel("North", NoDigits, ""), 500)>>

DefaultDescription == "Updated with new prediction."

----------------------------------------------------------------------------
(* ChatInterface: the merge loop of handleSendMessage *)

\* existingChart.xKey === aiXKey && existingChart.yKey === aiYKey
Matches(existingChart, aiChart) ==
    /\ existingChart.xKey = aiChart.xKey
    /\ existingChart.yKey = aiChart.yKey

\* newDescription || `Updated with new prediction.`
MergedDescription(existingChart, aiChart) ==
    IF aiChart.description \in {UNDEF, ""}
    THEN DefaultDescription
    ELSE aiChart.description

InsightsOverwritten(existingChart, aiChart) == aiChart.insights

\* newInsights || existingChart.insights
MergedInsights(existingChart, aiChart) ==
    IF IsSome(aiChart.insights) THEN aiChart.insights ELSE existingChart.insights

\* { ...existingChart, data, description, insights }
UpdateMatched(existingChart, aiChart) ==
    [existingChart EXCEPT !.data = aiChart.data,
                          !.description = MergedDescription(existingChart, aiChart),
                          !.insights = MergedInsights(existingChart, aiChart)]

MapFirstMatch(updatedCharts, aiChart) ==
    [i \in 1..Len(updatedCharts) |->
        IF /\ Matches(updatedCharts[i], aiChart)
           /\ \A j \in 1..(i - 1) : ~Matches(updatedCharts[j], aiChart)
        THEN UpdateMatched(updatedCharts[i], aiChart)
        ELSE updatedCharts[i]]

\* updatedCharts.map(existingChart => ...)
MapMatches(updatedCharts, aiChart) ==
    [i \in 1..Len(updatedCharts) |->
        IF Matches(updatedCharts[i], aiChart)
        THEN UpdateMatched(updatedCharts[i], aiChart)
        ELSE updatedCharts[i]]

\* chartWasMatchedAndUpdated after the map
ChartWasMatchedAndUpdated(updatedCharts, aiChart) ==
    \E i \in 1..Len(updatedCharts) : Matches(updatedCharts[i], aiChart)

MergeOneUnshift(updatedCharts, aiChart) ==
    IF ChartWasMatchedAndUpdated(updatedCharts, aiChart)
    THEN MapMatches(updatedCharts, aiChart)
    ELSE <<aiChart>> \o MapMatches(updatedCharts, aiChart)

\* the body of chartUpdates.forEach for one proposal
MergeOne(updatedCharts, aiChart) ==
    IF ChartWasMatchedAndUpdated(updatedCharts, aiChart)
    THEN MapMatches(updatedCharts, aiChart)
    ELSE Append(MapMatches(updatedCharts, aiChart), aiChart)

\* every proposal matched against the charts of before the batch only
RECURSIVE MapAll(_, _)
MapAll(updatedCharts, chartUpdates) ==
    IF chartUpdates = <<>> THEN updatedCharts
    ELSE MapAll(MapMatches(updatedCharts, Head(chartUpdates)), Tail(chartUpdates))

MergeAllIndependent(updatedCharts, chartUpdates) ==
    MapAll(updatedCharts, chartUpdates)
        \o SelectSeq(chartUpdates,
                     LAMBDA aiChart : ~ChartWasMatchedAndUpdated(updatedCharts, aiChart))

\* chartUpdates.forEach(aiChart => ...) over the copy of the charts prop
RECURSIVE MergeAll(_, _)
MergeAll(updatedCharts, chartUpdates) ==
    IF chartUpdates = <<>>
    THEN updatedCharts
    ELSE MergeAll(MergeOne(updatedCharts, Head(chartUpdates)), Tail(chartUpdates))

\* destructuring a null entry throws a TypeError inside the loop
MergeThrows(chartUpdates) ==
    \E i \in 1..Len(chartUpdates) : IsNullEntry(chartUpdates[i])

----------------------------------------------------------------------------
(* ChatInterface: queryGemini *)

\* what the completion call may come to:
\*   nokey    no API key (window, env and prompt all empty)
\*   network  fetch rejects
\*   http     res.ok is false
\*   empty    no text in candidates[0]
\*   badjson  the text does not parse
\*   json     the text parses to value
Failure(k) == [kind |-> k]
Unparseable(text) == [kind |-> "badjson", text |-> text]
Parsed(v) == [kind |-> "json", value |-> v]

JsonNull == [t |-> "null"]
JsonObject(r, c) == [t |-> "object", response |-> r, charts |-> c]
NoChartsField == [t |-> "undefined"]
ArrayField(items) == [t |-> "array", items |-> items]
StringField == [t |-> "string"]
ObjectField == [t |-> "object"]

InvalidFormatResponse == "Sorry, I received an invalid response format. Please try again."
ErrorNotice == "I'm sorry, I encountered an error while processing your request. Please try again."

\* the throw statements of queryGemini and a rejected fetch
QueryGeminiThrows(outcome) ==
    outcome.kind \in {"nokey", "network", "http", "empty"}

QueryGeminiRaw(outcome) ==
    IF outcome.kind = "badjson"
    THEN JsonObject(outcome.text, ArrayField(<<>>))
    ELSE outcome.value

\* the value queryGemini resolves to when it does not throw
QueryGeminiResult(outcome) ==
    IF outcome.kind = "badjson"
    THEN JsonObject(InvalidFormatResponse, ArrayField(<<>>))
    ELSE outcome.value

\* chartUpdates && chartUpdates.length > 0
HasChartUpdates(chartsField) ==
    \/ chartsField.t = "array" /\ chartsField.items # <<>>
    \/ chartsField.t = "string"

\* the statements of the try block after the await that throw a TypeError:
\* llmResult.response on null, forEach on a string, destructuring a null entry
MergeStepThrows(result) ==
    \/ result.t = "null"
    \/ /\ result.t = "object"
       /\ HasChartUpdates(result.charts)
       /\ \/ result.charts.t = "string"
          \/ MergeThrows(result.charts.items)

\* setCharts(updatedCharts) is reached
CommitsCharts(result) ==
    /\ result.t = "object"
    /\ HasChartUpdates(result.charts)
    /\ ~MergeStepThrows(result)

----------------------------------------------------------------------------
(* Arithmetic of the page and the dashboard, on exact fractions *)

Abs(n) == IF n < 0 THEN -n ELSE n

RECURSIVE Gcd(_, _)
Gcd(a, b) == IF b = 0 THEN a ELSE Gcd(b, a % b)

\* the fraction n / d (d > 0) in lowest terms
Frac(n, d) == LET g == Gcd(Abs(n), d) IN [n |-> n \div g, d |-> d \div g]

\* a / b < c / d for a, c >= 0 and b, d > 0, without cross products
RECURSIVE FracLess(_, _, _, _)
FracLess(a, b, c, d) ==
    IF a \div b # c \div d THEN a \div b < c \div d
    ELSE IF c % d = 0 THEN FALSE
    ELSE IF a % b = 0 THEN TRUE
    ELSE FracLess(d, c % d, b, a % b)

\* Math.round(n / d) for n >= 0, d > 0
RoundDiv(n, d) == (n \div d) + (IF 2 * (n % d) >= d THEN 1 ELSE 0)

Infinity == 999999999
NaN == -999999

\* the decimal digits of r / d (0 <= r < d), rounded at the places-th place
RECURSIVE Decimals(_, _, _)
Decimals(r, d, places) ==
    IF places = 0 THEN (IF 2 * r >= d THEN 1 ELSE 0)
    ELSE LET step == Decimals((10 * r) % d, d, places - 1)
         IN  ((10 * r) \div d) * (IF places = 1 THEN 1 ELSE IF places = 2 THEN 10 ELSE 100)
             + step

\* (n / d * 100).toFixed(1), in tenths of a percent
Pct1(n, d) ==
    IF d = 0 THEN (IF n = 0 THEN NaN ELSE IF n > 0 THEN Infinity ELSE -Infinity)
    ELSE LET f == Frac(Abs(n), Abs(d))
             t == 1000 * (f.n \div f.d) + Decimals(f.n % f.d, f.d, 3)
         IN  IF (n < 0) = (d < 0) THEN t ELSE -t

SeqMax(s) == CHOOSE m \in {s[i] : i \in 1..Len(s)} : \A i \in 1..Len(s) : s[i] <= m
SeqMin(s) == CHOOSE m \in {s[i] : i \in 1..Len(s)} : \A i \in 1..Len(s) : s[i] >= m
\* values.indexOf(v), 1-based
IndexOf(s, v) == CHOOSE i \in 1..Len(s) : s[i] = v /\ \A j \in 1..(i - 1) : s[j] # v
CountIf(s, Test(_)) == Cardinality({i \in 1..Len(s) : Test(s[i])})

----------------------------------------------------------------------------
(* Index: datasets, analyzeColumn, generateAutoCharts *)

\* a cell of a parsed row: a number v, a date-like text (v its leading run of
\* digits, s the rest), any other text s, or the empty string
NumCell(n) == [kind |-> "num", v |-> n, s |-> ""]
DateCell(n, rest) == [kind |-> "date", v |-> n, s |-> rest]
WordCell(w) == [kind |-> "word", v |-> NoDigits, s |-> w]
EmptyCell == [kind |-> "empty", v |-> NoDigits, s |-> ""]

LongLen == 41
SampleSize == 50
MaxRows == 4

SalesRow(year, region, sales, profit) ==
    [month |-> DateCell(year, "-01-01"), cat |-> WordCell(region),
     sales |-> NumCell(sales), profit |-> NumCell(profit)]

\* a dataset with a temporal, a categorical and two numerical columns
SalesData ==
    [name |-> "sales.csv",
     headers |-> <<"month", "cat", "sales", "profit">>,
     rows |-> SubSeq(<<SalesRow(2021, "North", 10, 1), SalesRow(2022, "South", 20, 2),
                       SalesRow(2023, "North", 30, 2), SalesRow(2024, "East", 40, 5),
                       SalesRow(2025, "South", 0, 3)>>, 1, Min2(MaxRows, 5))]

\* a long, flat dataset whose columns are named like the keys of the area chart
SeriesData ==
    [name |-> "series.csv",
     headers |-> <<"index", "value">>,
     rows |-> [i \in 1..LongLen |->
                  [index |-> DateCell(2000 + i, "-06-30"), value |-> NumCell(5)]]]

Datasets == {SalesData, SeriesData}
DatasetNamed(n) == CHOOSE d \in Datasets : d.name = n

TakeAll(s, n) == s

Take(s, n) == SubSeq(s, 1, Min2(n, Len(s)))

\* v !== null && v !== undefined && v !== ''
IsMissing(cell) == cell.kind = "empty"
\* typeof v === 'number' || !isNaN(Number(v))
IsNumeric(cell) == cell.kind = "num"
\* str.includes('date') || str.includes('time') || !isNaN(Date.parse(str)):
\* a date-like text, or a number of four digits, whose text is an ISO year
IsDateLike(cell) ==
    \/ cell.kind = "date"
    \/ cell.kind = "num" /\ cell.v \in 1000..9999

\* Math.round(a / b * 100) for a >= 0, b > 0
RoundPercent(a, b) == (200 * a + b) \div (2 * b)

\* the values of a statistic: a fraction, the square root of a fraction, or
\* one of the values JavaScript gives for an empty list
Number(f) == [t |-> "number", v |-> f]
Sqrt(f) == [t |-> "sqrt", v |-> f]
NotANumber == [t |-> "NaN"]
Undefined == [t |-> "undefined"]
PlusInfinity == [t |-> "Infinity"]
MinusInfinity == [t |-> "-Infinity"]

\* numValues.sort((a, b) => a - b)[k], k counted from 1
NthSmallest(numValues, k) ==
    CHOOSE v \in {numValues[j] : j \in 1..Len(numValues)} :
        /\ Cardinality({j \in 1..Len(numValues) : numValues[j] < v}) < k
        /\ Cardinality({j \in 1..Len(numValues) : numValues[j] <= v}) >= k

\* the stats object of a numerical column
NumericalStats(numValues) ==
    LET n == Len(numValues)
        sum == SeqSum(numValues)
    IN  IF n = 0
        THEN [mean |-> NotANumber, median |-> Undefined, std |-> NotANumber,
              min |-> PlusInfinity, max |-> MinusInfinity]
        ELSE [mean |-> Number(Frac(sum, n)),
              median |-> Number(Frac(NthSmallest(numValues, (n \div 2) + 1), 1)),
              std |-> Sqrt(Frac(SeqSum([j \in 1..n |->
                                    (n * numValues[j] - sum) * (n * numValues[j] - sum)]),
                                n * n * n)),
              min |-> Number(Frac(SeqMin(numValues), 1)),
              max |-> Number(Frac(SeqMax(numValues), 1))]

\* let stats = {}
NoStats == <<>>

\* the rules with the date rule first
ColumnTypeDateFirst(data, columnName) ==
    LET nonNull == {i \in 1..Len(data) : ~IsMissing(data[i][columnName])}
        unique == {data[i][columnName] : i \in nonNull}
    IN  IF \E i \in nonNull : IsDateLike(data[i][columnName]) THEN "temporal"
        ELSE IF \A i \in nonNull : IsNumeric(data[i][columnName]) THEN "numerical"
        ELSE IF 10 * Cardinality(unique) <= Max2(100, Len(data)) THEN "categorical"
        ELSE "text"

\* the rules with the ratio alone as the limit of a categorical column
ColumnTypeRatio(data, columnName) ==
    LET nonNull == {i \in 1..Len(data) : ~IsMissing(data[i][columnName])}
        unique == {data[i][columnName] : i \in nonNull}
    IN  IF \A i \in nonNull : IsNumeric(data[i][columnName]) THEN "numerical"
        ELSE IF \E i \in nonNull : IsDateLike(data[i][columnName]) THEN "temporal"
        ELSE IF 10 * Cardinality(unique) <= Len(data) THEN "categorical"
        ELSE "text"

ColumnType(data, columnName) ==
    LET nonNull == {i \in 1..Len(data) : ~IsMissing(data[i][columnName])}
        unique == {data[i][columnName] : i \in nonNull}
    IN  IF \A i \in nonNull : IsNumeric(data[i][columnName]) THEN "numerical"
        ELSE IF \E i \in nonNull : IsDateLike(data[i][columnName]) THEN "temporal"
        ELSE IF 10 * Cardinality(unique) <= Max2(100, Len(data)) THEN "categorical"
        ELSE "text"

analyzeColumn(data, columnName) ==
    LET nonNullValues == SelectSeq([i \in 1..Len(data) |-> data[i][columnName]],
                                   LAMBDA cell : ~IsMissing(cell))
        unique == {nonNullValues[i] : i \in 1..Len(nonNullValues)}
        type == ColumnType(data, columnName)
    IN  [name |-> columnName,
         type |-> type,
         nullCount |-> Len(data) - Len(nonNullValues),
         uniqueCount |-> Cardinality(unique),
         quality |-> IF Len(data) = 0 THEN NaN
                     ELSE RoundPercent(Len(nonNullValues), Len(data)),
         stats |-> IF type = "numerical"
                   THEN NumericalStats([i \in 1..Len(nonNullValues) |-> nonNullValues[i].v])
                   ELSE NoStats]

\* headers.map(header => analyzeColumn(data, header))
AnalyzeAll(dataset) ==
    [i \in 1..Len(dataset.headers) |-> analyzeColumn(dataset.rows, dataset.headers[i])]

\* item[key] as an axis label
CellLabel(cell) ==
    IF cell.kind = "num" THEN NumLabel(cell.v) ELSE StrLabel(IF cell.kind = "word" THEN cell.s ELSE "", cell.v, IF cell.kind = "word" THEN "" ELSE cell.s)

\* Number(item[key]) || 0, in hundredths
CellNumber(cell) == IF cell.kind = "num" THEN 100 * cell.v ELSE 0

ColsOfType(cols, t) == SelectSeq(cols, LAMBDA c : c.type = t)

\* rows of the sample as points of a chart with the given keys
RowPoints(sampleData, xName, yName) ==
    [i \in 1..Len(sampleData) |->
        Point(CellLabel(sampleData[i][xName]), CellNumber(sampleData[i][yName]))]

\* Object.entries(sampleData.reduce(...)): one entry per category, in the order
\* of first occurrence, valued with the sum of the numerical column
RECURSIVE FirstOccurrences(_, _)
FirstOccurrences(sampleData, catName) ==
    IF sampleData = <<>> THEN <<>>
    ELSE LET front == SubSeq(sampleData, 1, Len(sampleData) - 1)
             last == sampleData[Len(sampleData)][catName]
             before == FirstOccurrences(front, catName)
         IN  IF \E i \in 1..Len(front) : front[i][catName] = last
             THEN before ELSE Append(before, last)

\* Object.entries lists the keys that are array indices (the non-negative
\* integers) first, in ascending order, and the other keys after them in the
\* order of insertion
AggregatedData(sampleData, catName, numName) ==
    LET seen == FirstOccurrences(sampleData, catName)
        isIndex(c) == c.kind = "num" /\ c.v >= 0
        indices == {seen[j] : j \in {i \in 1..Len(seen) : isIndex(seen[i])}}
        ranked(r) == CHOOSE c \in indices : Cardinality({d \in indices : d.v < c.v}) = r
        named == SelectSeq(seen, LAMBDA c : ~isIndex(c))
        cats == [k \in 1..Len(seen) |->
                    IF k <= Cardinality(indices) THEN ranked(k - 1)
                    ELSE named[k - Cardinality(indices)]]
        total(c) == SeqSum([i \in 1..Len(sampleData) |->
                        IF sampleData[i][catName] = c
                        THEN CellNumber(sampleData[i][numName]) ELSE 0])
    IN  [k \in 1..Len(cats) |-> Point(CellLabel(cats[k]), total(cats[k]))]

\* sampleData.map((row, index) => ({ index: index + 1, value: ... }))
DistributionData(sampleData, numName) ==
    [i \in 1..Len(sampleData) |->
        Point(NumLabel(i), CellNumber(sampleData[i][numName]))]

StaticInsights(n) == Some(<<Custom(n), Custom(n + 1), Custom(n + 2)>>)

generateAutoCharts(data, cols) ==
    LET numericalCols == ColsOfType(cols, "numerical")
        categoricalCols == ColsOfType(cols, "categorical")
        temporalCols == ColsOfType(cols, "temporal")
        sampleData == Take(data, SampleSize)
        line == IF Len(temporalCols) > 0 /\ Len(numericalCols) > 0
                THEN <<Chart("timeseries-1", "line", "Time Series Analysis", "over",
                             Some(RowPoints(sampleData, temporalCols[1].name, numericalCols[1].name)),
                             temporalCols[1].name, numericalCols[1].name, StaticInsights(10))>>
                ELSE <<>>
        bar == IF Len(categoricalCols) > 0 /\ Len(numericalCols) > 0
               THEN <<Chart("bar-1", "bar", "Category Performance", "by",
                            Some(AggregatedData(sampleData, categoricalCols[1].name, numericalCols[1].name)),
                            categoricalCols[1].name, numericalCols[1].name, StaticInsights(20))>>
               ELSE <<>>
        scatter == IF Len(numericalCols) >= 2
                   THEN <<Chart("scatter-1", "scatter", "Correlation Analysis", "vs",
                                Some(RowPoints(sampleData, numericalCols[1].name, numericalCols[2].name)),
                                numericalCols[1].name, numericalCols[2].name, StaticInsights(30))>>
                   ELSE <<>>
        area == IF Len(numericalCols) > 0
                THEN <<Chart("area-1", "area", "Distribution Pattern", "distribution",
                             Some(DistributionData(sampleData, numericalCols[1].name)),
                             "index", "value", StaticInsights(40))>>
                ELSE <<>>
    IN  line \o bar \o scatter \o area

\* Math.max(10, data.length * 0.1)
DistinctLimit == 10

\* the files the profiler and the chart selector are applied to
Words == <<"w01", "w02", "w03", "w04", "w05", "w06", "w07", "w08", "w09", "w10",
           "w11", "w12">>

\* a column of counted cells: years, a date, distinct words, empty cells
Shapes ==
    [nums : 0..2, dates : 0..1, words : {0, 1, DistinctLimit, DistinctLimit + 1},
     empties : {0, 1, 2, 10 * DistinctLimit}]

ShapeCells(p) ==
    [i \in 1..p.nums |-> NumCell(2000 + i)]
        \o [i \in 1..p.dates |-> DateCell(2020, "-01-01")]
        \o [i \in 1..p.words |-> WordCell(Words[i])]
        \o [i \in 1..p.empties |-> EmptyCell]

\* a file with the single column a
OneColumn(p) ==
    [name |-> "probe.csv", headers |-> <<"a">>,
     rows |-> [i \in 1..Len(ShapeCells(p)) |-> [a |-> ShapeCells(p)[i]]]]

ColumnKinds == {"numerical", "temporal", "categorical", "text", "missing"}

\* the i-th cell of a column of the kind
KindCell(kind, i) ==
    CASE kind = "numerical" -> NumCell(i)
      [] kind = "temporal" -> DateCell(2000 + i, "-01-01")
      [] kind = "categorical" -> WordCell(Words[1])
      [] kind = "text" -> WordCell(Words[(i % (DistinctLimit + 1)) + 1])
      [] OTHER -> EmptyCell

\* a file with the columns a, b, c, d of the kinds ks and n rows
FourColumns(ks, n) ==
    [name |-> "probe.csv", headers |-> <<"a", "b", "c", "d">>,
     rows |-> [i \in 1..n |->
                  [a |-> KindCell(ks[1], i), b |-> KindCell(ks[2], i),
                   c |-> KindCell(ks[3], i), d |-> KindCell(ks[4], i)]]]

\* a file with a column of categories and a column of numbers; a category
\* is a word, the empty string or a number that is no year of a date, and
\* one of them is a word: the column is not numerical
GroupedFile(cats) ==
    [name |-> "probe.csv", headers |-> <<"a", "b">>,
     rows |-> [i \in 1..Len(cats) |-> [a |-> cats[i], b |-> NumCell(i)]]]

ProbeDatasets ==
    Datasets
        \cup {OneColumn(p) : p \in Shapes}
        \cup {FourColumns(ks, n) : ks \in [1..4 -> ColumnKinds],
                                   n \in {DistinctLimit + 1, SampleSize + 1}}
        \cup {GroupedFile(cats) :
                cats \in {q \in SeqsUpTo({WordCell("North"), WordCell("South"), EmptyCell,
                                          NumCell(1000000), NumCell(2000000)}, MaxRows) :
                            \E i \in 1..Len(q) : q[i].kind = "word"}}
        \cup {GroupedFile([i \in 1..(SampleSize + 1) |->
                            WordCell(IF i <= SampleSize THEN "North" ELSE "South")])}

----------------------------------------------------------------------------
(* AutoDashboard: generateChartInsights *)

Unfiltered(points) == points

\* chart.data.filter(item => !item.isForecast)
Historical(points) == SelectSeq(points, LAMBDA p : ~p.isForecast)

\* actualData.map(item => Number(item[chart.yKey]) || 0)
YValues(points) == [i \in 1..Len(points) |-> points[i].y]

\* Number(item[chart.xKey]) || 0
XNumber(lab) ==
    IF lab.kind = "num" \/ (lab.kind = "str" /\ lab.pre = "" /\ lab.suf = "" /\ lab.num # NoDigits)
    THEN lab.num ELSE 0

\* !chart.yKey
NoKey(key) == key \in {UNDEF, ""}

\* the coefficient of variation, rounded to one decimal, is below limit
\* (limit in tenths of a percent): sqrt(n * sq - sum^2) / sum < (limit - 1/2) / 1000
VariationBelow(values, limit) ==
    LET n == Len(values)
        sum == SeqSum(values)
        sq == SeqSum([i \in 1..n |-> values[i] * values[i]])
        q == n * sq - sum * sum
        lim == Frac((2 * limit - 1) * (2 * limit - 1), 4000000)
    IN  IF sum < 0 THEN TRUE
        ELSE IF sum = 0 THEN FALSE
        ELSE FracLess(q, sum * sum, lim.n, lim.d)

TrendInsights(values) ==
    LET firstValue == values[1]
        lastValue == values[Len(values)]
    IN  IF lastValue > firstValue
        THEN <<Insight("trend-up", Pct1(lastValue - firstValue, firstValue), 0)>>
        ELSE IF lastValue < firstValue
        THEN <<Insight("trend-down", Pct1(firstValue - lastValue, firstValue), 0)>>
        ELSE <<Insight("trend-stable", 0, 0)>>

LineInsights(actualData) ==
    LET values == YValues(actualData)
        n == Len(values)
        sum == SeqSum(values)
        maxValue == SeqMax(values)
        aboveAvg == CountIf(values, LAMBDA v : v * n > sum)
    IN  TrendInsights(values)
        \o <<InsightAt("peak", maxValue, 0, actualData[IndexOf(values, maxValue)].x)>>
        \o <<Insight("average", IF sum >= 0 THEN RoundDiv(sum, n) ELSE -RoundDiv(-sum, n),
                     RoundDiv(100 * aboveAvg, n))>>
        \o <<Insight(IF VariationBelow(values, 150) THEN "volatility-low"
                     ELSE IF VariationBelow(values, 300) THEN "volatility-moderate"
                     ELSE "volatility-high", 0, 0)>>

BarInsights(actualData) ==
    LET values == YValues(actualData)
        n == Len(values)
        total == SeqSum(values)
        maxValue == SeqMax(values)
        minValue == SeqMin(values)
        above == SelectSeq(values, LAMBDA v : v * n > total)
    IN  <<InsightAt("bar-top", maxValue, Pct1(maxValue, total),
                    actualData[IndexOf(values, maxValue)].x)>>
        \o (IF n > 1
            THEN <<InsightAt("bar-bottom", minValue, 0, actualData[IndexOf(values, minValue)].x)>>
            ELSE <<>>)
        \o (IF Len(above) <= 3 /\ n > 3
            THEN <<Insight("bar-above-average", Len(above), Pct1(SeqSum(above), total))>>
            ELSE <<>>)
        \o <<Insight("bar-gap", Pct1(maxValue - minValue, maxValue), 0)>>

\* the sum of the k largest values
RECURSIVE TopSum(_, _)
TopSum(values, k) ==
    IF k = 0 \/ values = <<>> THEN 0
    ELSE LET m == SeqMax(values)
             at == IndexOf(values, m)
         IN  m + TopSum(SubSeq(values, 1, at - 1) \o SubSeq(values, at + 1, Len(values)), k - 1)

PieInsights(actualData) ==
    LET values == YValues(actualData)
        n == Len(values)
        total == SeqSum(values)
        maxValue == SeqMax(values)
        \* Math.abs(v - avgValue) / avgValue < 0.3
        near(v) == IF total < 0 THEN TRUE
                   ELSE IF total = 0 THEN FALSE
                   ELSE 10 * Abs(v * n - total) < 3 * total
        balanced == CountIf(values, near)
    IN  <<InsightAt("pie-dominant", 0, Pct1(maxValue, total),
                    actualData[IndexOf(values, maxValue)].x)>>
        \o <<Insight(IF 10 * balanced >= 7 * n THEN "pie-balanced" ELSE "pie-uneven", n, 0)>>
        \o (IF n >= 3 THEN <<Insight("pie-top3", Pct1(TopSum(values, 3), total), 0)>>
            ELSE <<>>)

\* the bucket of the Pearson correlation of the x and y values
CorrelationKind(xs, ys) ==
    LET n == Len(xs)
        sx == SeqSum(xs)
        sy == SeqSum(ys)
        num == n * SeqSum([i \in 1..n |-> xs[i] * ys[i]]) - sx * sy
        dx == n * SeqSum([i \in 1..n |-> xs[i] * xs[i]]) - sx * sx
        dy == n * SeqSum([i \in 1..n |-> ys[i] * ys[i]]) - sy * sy
        \* |r| > t / 10: num^2 / (dx * dy) > t^2 / 100
        above(t) == FracLess(t * t * dy, 100 * Abs(num), Abs(num), dx)
    IN  IF dx = 0 \/ dy = 0 \/ num = 0 THEN "correlation-weak"
        ELSE IF num > 0 /\ above(7) THEN "correlation-strong-positive"
        ELSE IF num > 0 /\ above(3) THEN "correlation-moderate-positive"
        ELSE IF num < 0 /\ above(7) THEN "correlation-strong-negative"
        ELSE IF num < 0 /\ above(3) THEN "correlation-moderate-negative"
        ELSE "correlation-weak"

ScatterInsights(actualData) ==
    LET xs == [i \in 1..Len(actualData) |-> XNumber(actualData[i].x)]
        ys == YValues(actualData)
    IN  <<Insight(CorrelationKind(xs, ys), 0, 0), Insight("sample-size", Len(actualData), 0)>>

\* the switch on chart.type
ComputedInsights(chart, actualData) ==
    IF NoKey(chart.yKey) THEN <<>>
    ELSE IF chart.type \in {"line", "area"} THEN LineInsights(actualData)
    ELSE IF chart.type = "bar" THEN BarInsights(actualData)
    ELSE IF chart.type = "pie" THEN PieInsights(actualData)
    ELSE IF chart.type = "scatter" /\ ~NoKey(chart.xKey) THEN ScatterInsights(actualData)
    ELSE <<>>

MaxInsights == 5

\* the insights of the chart before the computed ones
generateChartInsightsOwnFirst(chart) ==
    IF ~IsSome(chart.data) \/ Get(chart.data) = <<>>
    THEN <<Insight("no-data", 0, 0)>>
    ELSE LET actualData == Historical(Get(chart.data))
         IN  IF actualData = <<>>
             THEN <<Insight("no-historical-data", 0, 0)>>
             ELSE Take((IF IsSome(chart.insights) THEN Get(chart.insights) ELSE <<>>)
                       \o ComputedInsights(chart, actualData),
                       MaxInsights)

generateChartInsights(chart) ==
    IF ~IsSome(chart.data) \/ Get(chart.data) = <<>>
    THEN <<Insight("no-data", 0, 0)>>
    ELSE LET actualData == Historical(Get(chart.data))
         IN  IF actualData = <<>>
             THEN <<Insight("no-historical-data", 0, 0)>>
             ELSE Take(ComputedInsights(chart, actualData)
                       \o (IF IsSome(chart.insights) THEN Get(chart.insights) ELSE <<>>),
                       MaxInsights)

----------------------------------------------------------------------------
(* AutoDashboard: handleForecast *)

HorizonCap == 12
RandDen == 10

\* the values of Math.random() the model draws: k stands for k / RandDen
Rands == {0, RandDen - 1}

\* the draws of one forecast, one per forecast point
RandChoices(h) == {[i \in 1..h |-> r] : r \in Rands}

PieRefused(chart) == chart.type = "pie"

\* if (!chart.yKey || chart.type === 'pie') return
ForecastRefused(chart) == NoKey(chart.yKey) \/ chart.type = "pie"

AnyData(values) == Len(values) >= 1

\* values.length < 2 does not hold
EnoughData(values) == Len(values) >= 2

\* Math.min(12, Math.ceil(n * 0.3))
ForecastPeriods(n) == Min2(HorizonCap, (3 * n + 9) \div 10)

\* slope * (n + i - 1) + intercept for the least-squares line through
\* (0, values[1]), ..., (n - 1, values[n]), as a fraction; the slope is 0 when
\* the denominator is 0
ForecastValue(values, i) ==
    LET n == Len(values)
        sum == SeqSum(values)
        \* twice (index - meanX), and n times (value - meanY)
        dev(j) == 2 * (j - 1) - (n - 1)
        denominator == SeqSum([j \in 1..n |-> dev(j) * dev(j)])
        numerator == SeqSum([j \in 1..n |-> dev(j) * (n * values[j] - sum)])
        at == 2 * (n + i - 1) - (n - 1)
    IN  IF denominator = 0 THEN Frac(sum, n)
        ELSE Frac(sum * denominator + numerator * at, n * denominator)

JitteredTenth(value, r) ==
    LET factor == Frac(9 * RandDen + 2 * r, 10 * RandDen)
    IN  IF value.n < 0 THEN [n |-> 0, d |-> 1]
        ELSE Frac(value.n * factor.n, value.d * factor.d)

\* Math.max(0, forecastValue + forecastValue * 0.05 * (Math.random() - 0.5))
Jittered(value, r) ==
    LET factor == Frac(39 * RandDen + 2 * r, 40 * RandDen)
    IN  IF value.n < 0 THEN [n |-> 0, d |-> 1]
        ELSE Frac(value.n * factor.n, value.d * factor.d)

\* forecastValues
ForecastValues(values, rands) ==
    [i \in 1..ForecastPeriods(Len(values)) |-> Jittered(ForecastValue(values, i), rands[i])]

ForecastLabelWord(lastXValue, i) ==
    IF lastXValue.kind = "num" THEN NumLabel(lastXValue.num + i)
    ELSE IF lastXValue.kind = "str" /\ lastXValue.num # NoDigits
    THEN StrLabel(lastXValue.pre, lastXValue.num + i, lastXValue.suf)
    ELSE StrLabel("Forecast ", i, "")

\* forecastLabel for index + 1 = i
ForecastLabel(lastXValue, i) ==
    IF lastXValue.kind = "num" THEN NumLabel(lastXValue.num + i)
    ELSE IF lastXValue.kind = "str"
    THEN (IF lastXValue.num # NoDigits
          THEN StrLabel(lastXValue.pre, lastXValue.num + i, lastXValue.suf)
          ELSE StrLabel("F", i, ""))
    ELSE StrLabel("Forecast ", i, "")

\* extendedData
ExtendedData(historicalData, rands) ==
    LET forecastValues == ForecastValues(YValues(historicalData), rands)
        lastXValue == historicalData[Len(historicalData)].x
    IN  historicalData \o
        [i \in 1..Len(forecastValues) |->
            [x |-> ForecastLabel(lastXValue, i),
             y |-> RoundDiv(forecastValues[i].n, forecastValues[i].d),
             isForecast |-> TRUE]]

\* `Forecast shows a ${trendDirection} trend (${trendPercent}% change)`
ForecastInsight(values, rands) ==
    LET forecastValues == ForecastValues(values, rands)
        lastValue == values[Len(values)]
        forecastLastValue == forecastValues[Len(forecastValues)]
    IN  Insight(IF forecastLastValue.n > lastValue * forecastLastValue.d
                THEN "forecast-positive" ELSE "forecast-negative",
                Pct1(forecastLastValue.n - lastValue * forecastLastValue.d,
                     lastValue * forecastLastValue.d), 0)

\* updatedChart
UpdatedChart(chart, rands) ==
    LET historicalData == Historical(Get(chart.data))
        extended == [chart EXCEPT !.data = Some(ExtendedData(historicalData, rands))]
    IN  [extended EXCEPT !.insights =
            Some(Append(generateChartInsights(extended),
                        ForecastInsight(YValues(historicalData), rands)))]

\* charts.findIndex(c => c.id === chart.id), 1-based, 0 when there is none
FindIndex(chartList, id) ==
    IF \E i \in 1..Len(chartList) : chartList[i].id = id
    THEN CHOOSE i \in 1..Len(chartList) :
            chartList[i].id = id /\ \A j \in 1..(i - 1) : chartList[j].id # id
    ELSE 0

\* the forecast reaches its write-back: not refused, data present, enough points
ForecastProceeds(chart) ==
    /\ ~ForecastRefused(chart)
    /\ IsSome(chart.data)
    /\ EnoughData(YValues(Historical(Get(chart.data))))

\* charts[chartIndex] = updatedChart
WriteBack(chartList, chart, rands) ==
    LET chartIndex == FindIndex(chartList, chart.id)
    IN  IF chartIndex # 0
        THEN [chartList EXCEPT ![chartIndex] = UpdatedChart(chart, rands)]
        ELSE chartList

----------------------------------------------------------------------------
(* The completions the model draws *)

DescriptionGiven == "Sales per quarter"

\* a line chart over (month, sales), fully specified
ProposalFull ==
    Chart("ai-1", "line", "Sales Trend", DescriptionGiven, Some(SeriesA),
          "month", "sales", Some(<<Custom(1)>>))
\* the same pair, without description and insights, under the id of the
\* generated line chart
ProposalBare ==
    Chart("timeseries-1", "line", "Sales Trend", UNDEF, Some(SeriesB),
          "month", "sales", None)
\* an area chart over the keys of the generated area chart, with a single point,
\* an empty description and an empty insight list
ProposalArea ==
    Chart("ai-1", "area", "Distribution", "", Some(SeriesOne),
          "index", "value", Some(<<>>))
\* an entry without xKey and data
ProposalBroken ==
    Chart("ai-5", "line", "Untitled", UNDEF, None, UNDEF, "sales", None)

\* a line chart without yKey: every Number(item[undefined]) || 0 is 0
ProposalNoY ==
    Chart("ai-7", "line", "Months", DescriptionGiven,
          Some(<<Point(StrLabel("Q", 1, ""), 0), Point(StrLabel("Q", 2, ""), 0)>>),
          "month", UNDEF, None)

Pool == {ProposalFull, ProposalBare, ProposalArea, ProposalBroken, ProposalNoY, NullEntry}

Batches == SeqsUpTo(Pool, MaxBatch)

ResponseText == "Here is the analysis."
RawText == "Sales rose in every quarter."
SimulatedResponse == "I understand you're asking about ..."
Greeting == "Hello! I'm your AI data assistant."
UserText == "Show sales trends"

Outcomes ==
    {Failure(k) : k \in {"nokey", "network", "http", "empty"}}
        \cup {Unparseable(RawText), Parsed(JsonNull), Parsed(JsonObject(UNDEF, NoChartsField)),
              Parsed(JsonObject(ResponseText, StringField)),
              Parsed(JsonObject(ResponseText, ObjectField))}
        \cup {Parsed(JsonObject(ResponseText, ArrayField(b))) : b \in Batches}

----------------------------------------------------------------------------
(* The page *)

Message(t, c) == [type |-> t, content |-> c]
Op(name, a) == [op |-> name, arg |-> a]

\* the key the page was built or opened with, and the answers to the prompt
NoApiKey == "null"
ApiKey == "AIza-key"
ApiKeys == {NoApiKey, ApiKey}

\* the address of the fetch of queryGemini
GeminiUrl(key) ==
    [path |-> "https://generativelanguage.googleapis.com/v1beta/models/gemini-2.0-flash-exp:generateContent",
     key |-> key]
NoFetch == [path |-> "none", key |-> NoApiKey]

Init ==
    /\ apiKey \in ApiKeys
    /\ uploadedData = NoData
    /\ columns = <<>>
    /\ charts = <<>>
    /\ isGeneratingCharts = FALSE
    /\ timers = <<>>
    /\ messages = <<Message("assistant", Greeting)>>
    /\ isLoading = FALSE
    /\ error = "null"
    /\ inflight = None
    /\ forecastingChartId = "null"
    /\ forecasts = 0
    /\ lastOp = Op("init", 0)
    /\ prevCharts = <<>>

\* setCharts(next) of Index: a new array, which the call in flight does not see
Unalias(req) == IF IsSome(req) THEN Some([Get(req) EXCEPT !.alias = FALSE]) ELSE req

\* Index.handleFileUpload, up to the scheduling of the chart generation
handleFileUpload(d) ==
    /\ Len(timers) < MaxTimers
    /\ uploadedData' = d.name
    /\ columns' = AnalyzeAll(d)
    /\ isGeneratingCharts' = TRUE
    /\ timers' = Append(timers, [kind |-> "upload", data |-> d.name, cols |-> AnalyzeAll(d)])
    /\ lastOp' = Op("upload", d.name)
    /\ prevCharts' = <<>>
    /\ UNCHANGED <<apiKey, charts, messages, isLoading, error, inflight, forecastingChartId, forecasts>>

\* Index.removeUploadedFile (the button shows only while a dataset is loaded)
removeUploadedFile ==
    /\ uploadedData # NoData
    /\ uploadedData' = NoData
    /\ columns' = <<>>
    /\ charts' = <<>>
    /\ inflight' = Unalias(inflight)
    /\ lastOp' = Op("remove", 0)
    /\ prevCharts' = <<>>
    /\ UNCHANGED <<apiKey, isGeneratingCharts, timers, messages, isLoading, error, forecastingChartId, forecasts>>

\* what Index.handleRegenerateCharts schedules: nothing without a dataset
RegenerateTimers ==
    IF uploadedData = NoData THEN timers
    ELSE Append(timers, [kind |-> "regen", data |-> uploadedData, cols |-> columns])

\* Index.handleRegenerateCharts from the Regenerate button of the dashboard
handleRegenerateCharts ==
    /\ ~isGeneratingCharts
    /\ uploadedData # NoData
    /\ Len(timers) < MaxTimers
    /\ isGeneratingCharts' = TRUE
    /\ timers' = RegenerateTimers
    /\ lastOp' = Op("regenerate", 0)
    /\ prevCharts' = <<>>
    /\ UNCHANGED <<apiKey, uploadedData, columns, charts, messages, isLoading, error, inflight,
                   forecastingChartId, forecasts>>

\* a 1500 ms timer overtakes a 2000 ms timer set earlier; nothing else overtakes
MayFire(i) ==
    \A j \in 1..(i - 1) : timers[j].kind = "upload" /\ timers[i].kind = "regen"

\* the setTimeout callbacks of handleFileUpload and handleRegenerateCharts
TimerFires(i) ==
    /\ i \in 1..Len(timers)
    /\ MayFire(i)
    /\ charts' = generateAutoCharts(DatasetNamed(timers[i].data).rows, timers[i].cols)
    /\ isGeneratingCharts' = FALSE
    /\ timers' = SubSeq(timers, 1, i - 1) \o SubSeq(timers, i + 1, Len(timers))
    /\ inflight' = Unalias(inflight)
    /\ lastOp' = Op("timer", timers[i].kind)
    /\ prevCharts' = <<>>
    /\ UNCHANGED <<apiKey, uploadedData, columns, messages, isLoading, error, forecastingChartId, forecasts>>

\* the Forecast button shows on line, bar and area charts of the rendered dashboard
ForecastButton(chart) == chart.type \in {"line", "bar", "area"}

\* forecastingChartId when handleForecast returns
ForecastingIdAfter(chart) ==
    IF ForecastRefused(chart) THEN forecastingChartId ELSE "null"

\* AutoDashboard.handleForecast(charts[i]), with the call of onRegenerateCharts;
\* the write-back changes the array Index holds and a pending chat call captured
handleForecast(i, rands) ==
    LET chart == charts[i]
        proceeds == ForecastProceeds(chart)
        written == proceeds /\ FindIndex(charts, chart.id) # 0
    IN  /\ forecasts < MaxForecasts
        /\ ~isGeneratingCharts
        /\ ForecastButton(chart)
        /\ forecastingChartId # chart.id
        /\ written /\ uploadedData # NoData => Len(timers) < MaxTimers
        /\ charts' = IF proceeds THEN WriteBack(charts, chart, rands) ELSE charts
        /\ inflight' = IF proceeds /\ IsSome(inflight) /\ Get(inflight).alias
                       THEN Some([Get(inflight) EXCEPT
                                     !.charts = WriteBack(Get(inflight).charts, chart, rands)])
                       ELSE inflight
        /\ isGeneratingCharts' = IF written /\ uploadedData # NoData
                                 THEN TRUE ELSE isGeneratingCharts
        /\ timers' = IF written THEN RegenerateTimers ELSE timers
        /\ forecastingChartId' = ForecastingIdAfter(chart)
        /\ lastOp' = Op("forecast", [index |-> i, chart |-> chart, rands |-> rands,
                                     regenerates |-> written])
        /\ prevCharts' = charts
        /\ forecasts' = forecasts + 1
        /\ UNCHANGED <<apiKey, uploadedData, columns, messages, isLoading, error>>

\* a forecast of every chart that shows the button, for every draw
Forecast ==
    \E i \in 1..Len(charts) :
        \E rands \in RandChoices(IF ForecastProceeds(charts[i])
                                 THEN ForecastPeriods(Len(Historical(Get(charts[i].data))))
                                 ELSE 0) :
            handleForecast(i, rands)

\* queryGemini asks for a key when neither the window nor the build has one
Prompts(data, key) == data # NoData /\ key = NoApiKey

\* the key queryGemini goes on with: the one it found, or the answer to the prompt
KeyAfterPrompt(data, key, answer) == IF Prompts(data, key) THEN answer ELSE key

\* the fetch queryGemini issues, none when it threw before or was not called
FetchOf(data, key) ==
    IF data = NoData \/ key = NoApiKey THEN NoFetch ELSE GeminiUrl(key)

\* ChatInterface.handleSendMessage, up to the await; answer is what the user
\* types into the prompt (NoApiKey: cancelled or left empty)
handleSendMessage(answer) ==
    /\ ~isLoading
    /\ Cardinality({i \in 1..Len(messages) : messages[i].type = "user"}) < MaxSends
    /\ ~Prompts(uploadedData, apiKey) => answer = NoApiKey
    /\ messages' = Append(messages, Message("user", UserText))
    /\ isLoading' = TRUE
    /\ error' = "null"
    /\ apiKey' = KeyAfterPrompt(uploadedData, apiKey, answer)
    /\ inflight' = Some([charts |-> charts, alias |-> TRUE, data |-> uploadedData,
                         fetch |-> FetchOf(uploadedData, apiKey')])
    /\ lastOp' = Op("send", [prompted |-> Prompts(uploadedData, apiKey)])
    /\ prevCharts' = <<>>
    /\ UNCHANGED <<uploadedData, columns, charts, isGeneratingCharts, timers,
                   forecastingChartId, forecasts>>

RepliesSilent(outcome) ==
    IF QueryGeminiThrows(outcome) THEN <<>>
    ELSE LET result == QueryGeminiResult(outcome)
         IN  IF result.t = "null" THEN <<Message("assistant", ErrorNotice)>>
             ELSE <<Message("assistant", result.response)>>

\* the messages handleSendMessage appends once queryGemini has settled
Replies(outcome) ==
    IF QueryGeminiThrows(outcome) THEN <<Message("assistant", ErrorNotice)>>
    ELSE LET result == QueryGeminiResult(outcome)
         IN  IF result.t = "null" THEN <<Message("assistant", ErrorNotice)>>
             ELSE IF MergeStepThrows(result)
             THEN <<Message("assistant", result.response), Message("assistant", ErrorNotice)>>
             ELSE <<Message("assistant", result.response)>>

\* the argument of setCharts and onChartsUpdate: the merge over the charts prop
\* of the render that sent the message
MergedCharts(base, outcome) ==
    MergeAll(base, QueryGeminiResult(outcome).charts.items)

\* the chart set of Index when handleSendMessage has returned
ChartsAfterCompletion(base, outcome) ==
    IF ~QueryGeminiThrows(outcome) /\ CommitsCharts(QueryGeminiResult(outcome))
    THEN MergedCharts(base, outcome)
    ELSE charts

\* the rest of handleSendMessage when a dataset was loaded at sending time
CompletionArrives(outcome) ==
    /\ IsSome(inflight)
    /\ Get(inflight).data # NoData
    /\ outcome.kind = "nokey" <=> Get(inflight).fetch = NoFetch
    /\ messages' = messages \o Replies(outcome)
    /\ charts' = ChartsAfterCompletion(Get(inflight).charts, outcome)
    /\ error' = IF QueryGeminiThrows(outcome) \/ MergeStepThrows(QueryGeminiResult(outcome))
                THEN "error" ELSE error
    /\ isLoading' = FALSE
    /\ inflight' = None
    /\ lastOp' = Op("completion", [outcome |-> outcome, base |-> Get(inflight).charts])
    /\ prevCharts' = charts
    /\ UNCHANGED <<apiKey, uploadedData, columns, isGeneratingCharts, timers, forecastingChartId, forecasts>>

\* the rest of handleSendMessage without a dataset: the simulated response
SimulatedReply ==
    /\ IsSome(inflight)
    /\ Get(inflight).data = NoData
    /\ messages' = Append(messages, Message("assistant", SimulatedResponse))
    /\ isLoading' = FALSE
    /\ inflight' = None
    /\ lastOp' = Op("simulated", 0)
    /\ prevCharts' = <<>>
    /\ UNCHANGED <<apiKey, uploadedData, columns, charts, isGeneratingCharts, timers, error,
                   forecastingChartId, forecasts>>

\* the completions with at most one proposal
KeyOutcomes ==
    {o \in Outcomes :
        o.kind = "json" /\ o.value.t = "object" /\ o.value.charts.t = "array"
            => Len(o.value.charts.items) <= 1}

\* the page: every handler, completions with at most one proposal
Next ==
    \/ \E d \in Datasets : handleFileUpload(d)
    \/ removeUploadedFile
    \/ handleRegenerateCharts
    \/ \E i \in 1..Len(timers) : TimerFires(i)
    \/ Forecast
    \/ \E answer \in ApiKeys : handleSendMessage(answer)
    \/ \E outcome \in KeyOutcomes : CompletionArrives(outcome)
    \/ SimulatedReply

Spec == Init /\ [][Next]_vars

\* the page without the forecast button: every completion
NextChat ==
    \/ \E d \in Datasets : handleFileUpload(d)
    \/ removeUploadedFile
    \/ handleRegenerateCharts
    \/ \E i \in 1..Len(timers) : TimerFires(i)
    \/ \E answer \in ApiKeys : handleSendMessage(answer)
    \/ \E outcome \in Outcomes : CompletionArrives(outcome)
    \/ SimulatedReply

SpecChat == Init /\ [][NextChat]_vars

\* the profiler applied to a file: headers.map(header => analyzeColumn(data, header))
ApplyAnalyzeColumn ==
    /\ lastOp.op = "file"
    /\ columns' = AnalyzeAll(lastOp.arg)
    /\ lastOp' = Op("analyzed", lastOp.arg)
    /\ UNCHANGED <<apiKey, uploadedData, charts, isGeneratingCharts, timers, messages, isLoading,
                   error, inflight, forecastingChartId, forecasts, prevCharts>>

\* the chart selector applied to the file and its column profiles
ApplyGenerateAutoCharts ==
    /\ lastOp.op = "analyzed"
    /\ charts' = generateAutoCharts(lastOp.arg.rows, columns)
    /\ lastOp' = Op("generated", lastOp.arg)
    /\ UNCHANGED <<apiKey, uploadedData, columns, isGeneratingCharts, timers, messages, isLoading,
                   error, inflight, forecastingChartId, forecasts, prevCharts>>

\* the profiler and the chart selector on every file of ProbeDatasets
InitProfile ==
    /\ apiKey = NoApiKey
    /\ uploadedData = NoData
    /\ columns = <<>>
    /\ charts = <<>>
    /\ isGeneratingCharts = FALSE
    /\ timers = <<>>
    /\ messages = <<Message("assistant", Greeting)>>
    /\ isLoading = FALSE
    /\ error = "null"
    /\ inflight = None
    /\ forecastingChartId = "null"
    /\ forecasts = 0
    /\ prevCharts = <<>>
    /\ \E d \in ProbeDatasets : lastOp = Op("file", d)

NextProfile == ApplyAnalyzeColumn \/ ApplyGenerateAutoCharts

SpecProfile == InitProfile /\ [][NextProfile]_vars

\* the y values of the probe charts, in hundredths: every series of one to
\* three values over 0, 0.02, 0.03 and 10, and five series of their own
ProbeValues ==
    {q \in SeqsUpTo({0, 2, 3, 1000}, 3) : q # <<>>}
        \cup {<<1000, 2000, 3000>>, <<10000, 20000>>, <<8000, 2000>>, <<-1000, 1000>>,
              <<1000, 2000, 3000, 4000>>}

\* item[xKey] of the j-th point: a number, a text with a run of digits, a
\* text without digit, undefined (the chart has no xKey)
ProbeLabel(kind, j) ==
    IF kind = "num" THEN NumLabel(2000 + j)
    ELSE IF kind = "digits" THEN StrLabel("Week ", j, " of 2024")
    ELSE IF kind = "text" THEN StrLabel(<<"North", "South", "East", "West">>[j], NoDigits, "")
    ELSE OtherLabel

\* a chart as a completion may carry it; the points of a pie chart carry c,
\* which is item[colorKey]
ProbeChart(type, kind, values) ==
    LET xKey == IF kind = "none" THEN UNDEF ELSE "category"
        points == [j \in 1..Len(values) |-> Point(ProbeLabel(kind, j), values[j])]
        slices == [j \in 1..Len(values) |->
                    [x |-> ProbeLabel(kind, j), y |-> values[j], isForecast |-> FALSE,
                     c |-> ProbeLabel(IF kind = "none" THEN "text" ELSE kind, j)]]
        chart == Chart("probe-1", type, "Probe", DescriptionGiven,
                       Some(IF type = "pie" THEN slices ELSE points), xKey, "value", None)
    IN  [chart EXCEPT !.colorKey = IF type = "pie" THEN "category" ELSE UNDEF]

ProbeCharts ==
    {ProbeChart(type, kind, values) :
        type \in {"line", "bar", "area", "pie", "scatter"},
        kind \in {"num", "digits", "text", "none"},
        values \in ProbeValues}

\* the dashboard showing one chart merged from a completion that arrived
\* after the file was removed: the Forecast button and the rendering of the
\* insights on every probe chart
InitForecast ==
    /\ apiKey = ApiKey
    /\ uploadedData = NoData
    /\ columns = <<>>
    /\ \E chart \in ProbeCharts : charts = <<chart>>
    /\ isGeneratingCharts = FALSE
    /\ timers = <<>>
    /\ messages = <<Message("assistant", Greeting), Message("user", UserText),
                    Message("assistant", ResponseText)>>
    /\ isLoading = FALSE
    /\ error = "null"
    /\ inflight = None
    /\ forecastingChartId = "null"
    /\ forecasts = 0
    /\ lastOp = Op("probe", 0)
    /\ prevCharts = <<>>

SpecForecast == InitForecast /\ [][Forecast]_vars

----------------------------------------------------------------------------
(* Properties of the chat merge (chat-interface.tsx, handleSendMessage) *)

\* the last step was the arrival of a completion
LastCompletion == lastOp.op = "completion"
LastOutcome == lastOp.arg.outcome
\* the charts prop the merge started from
LastBase == lastOp.arg.base

\* the completion parsed to an object with a non-empty list of non-null proposals
BatchMerged ==
    /\ LastCompletion
    /\ LastOutcome.kind = "json"
    /\ LastOutcome.value.t = "object"
    /\ LastOutcome.value.charts.t = "array"
    /\ LastOutcome.value.charts.items # <<>>
    /\ \A k \in 1..Len(LastOutcome.value.charts.items) :
            ~IsNullEntry(LastOutcome.value.charts.items[k])

LastBatch == LastOutcome.value.charts.items

SamePair(c, p) == c.xKey = p.xKey /\ c.yKey = p.yKey
PairIn(chartList, p) == \E i \in 1..Len(chartList) : SamePair(chartList[i], p)
SingleProposal == BatchMerged /\ Len(LastBatch) = 1

\* C1: merging a single proposal whose (xKey, yKey) pair is the pair of no
\* chart of the current set gives a set one longer, whose last chart is the
\* proposal and whose earlier charts are unchanged
C1_AppendLaw ==
    SingleProposal /\ ~PairIn(LastBase, LastBatch[1]) =>
        /\ Len(charts) = Len(LastBase) + 1
        /\ charts[Len(charts)] = LastBatch[1]
        /\ \A i \in 1..Len(LastBase) : charts[i] = LastBase[i]

C1_Witness ==
    /\ SingleProposal
    /\ ~PairIn(LastBase, LastBatch[1])
    /\ Len(LastBase) >= 2
    /\ charts = Append(LastBase, LastBatch[1])

\* C2 (as stated): applying a batch of proposals a second time to the result
\* of its first application leaves every chart as the first application left it
C2_Idempotent ==
    BatchMerged =>
        MergeAll(MergeAll(LastBase, LastBatch), LastBatch) = MergeAll(LastBase, LastBatch)

\* C3 (as stated): when several charts have the pair of the proposal, the
\* charts after the first of them are left unchanged
C3_FirstMatchOnly ==
    SingleProposal =>
        \A i \in 1..Len(LastBase) :
            /\ SamePair(LastBase[i], LastBatch[1])
            /\ \E j \in 1..(i - 1) : SamePair(LastBase[j], LastBatch[1])
            => charts[i] = LastBase[i]

\* C3 (amended): every chart that has the pair of the proposal takes the
\* proposal's data, at its own index and under its own id; the other charts
\* are unchanged and nothing is appended
C3_EveryMatchUpdated ==
    SingleProposal /\ PairIn(LastBase, LastBatch[1]) =>
        /\ Len(charts) = Len(LastBase)
        /\ \A i \in 1..Len(LastBase) :
                IF SamePair(LastBase[i], LastBatch[1])
                THEN /\ charts[i].data = LastBatch[1].data
                     /\ charts[i].id = LastBase[i].id
                ELSE charts[i] = LastBase[i]

C3_Witness ==
    /\ SingleProposal
    /\ \E i, j \in 1..Len(LastBase) :
            /\ i < j
            /\ SamePair(LastBase[i], LastBatch[1])
            /\ SamePair(LastBase[j], LastBatch[1])
            /\ LastBase[j].data # LastBatch[1].data
            /\ charts[i].data = LastBatch[1].data
            /\ charts[j].data = LastBatch[1].data

\* C4 (as stated): a matched chart keeps its id and index and takes the
\* proposal's data, description (the generic one when the proposal has none)
\* and insights, whether or not the proposal has insights
C4_ProposalInsightsAlways ==
    SingleProposal =>
        \A i \in 1..Len(LastBase) :
            SamePair(LastBase[i], LastBatch[1]) =>
                /\ charts[i].id = LastBase[i].id
                /\ charts[i].data = LastBatch[1].data
                /\ charts[i].description =
                        IF LastBatch[1].description = UNDEF
                        THEN "Updated with new prediction."
                        ELSE LastBatch[1].description
                /\ charts[i].insights = LastBatch[1].insights

\* C4 (amended): a matched chart keeps its index and every field but data,
\* description and insights; data become the proposal's, the description
\* becomes the proposal's or the generic one when the proposal's is missing or
\* empty, and the insights become the proposal's when it has some and stay
\* the chart's own otherwise
C4_UpdateInPlace ==
    SingleProposal =>
        \A i \in 1..Len(LastBase) :
            SamePair(LastBase[i], LastBatch[1]) =>
                charts[i] =
                    [LastBase[i] EXCEPT
                        !.data = LastBatch[1].data,
                        !.description =
                            IF LastBatch[1].description \in {UNDEF, ""}
                            THEN "Updated with new prediction."
                            ELSE LastBatch[1].description,
                        !.insights =
                            IF LastBatch[1].insights = None
                            THEN LastBase[i].insights
                            ELSE LastBatch[1].insights]

C4_Witness ==
    /\ SingleProposal
    /\ LastBatch[1].insights = None
    /\ \E i \in 1..Len(LastBase) :
            /\ SamePair(LastBase[i], LastBatch[1])
            /\ LastBase[i].insights # None
            /\ charts[i].insights = LastBase[i].insights
            /\ charts[i].data = LastBatch[1].data
            /\ charts[i].data # LastBase[i].data

\* the proposals of the batch whose pair is the pair of no chart of the base
Unmatched == {k \in 1..Len(LastBatch) : ~PairIn(LastBase, LastBatch[k])}

\* C5 (as stated): the merged set is longer than the current set by the
\* number of proposals whose pair matches no chart of the current set
C5_CountsEveryUnmatched ==
    BatchMerged => Len(charts) = Len(LastBase) + Cardinality(Unmatched)

\* C5 (amended): each proposal is matched against the set as the proposals
\* before it left it, so the merged set is longer than the current set by the
\* number of distinct pairs among the proposals that match no chart of the
\* current set
C5_CountsDistinctPairs ==
    BatchMerged =>
        Len(charts) = Len(LastBase)
            + Cardinality({<<LastBatch[k].xKey, LastBatch[k].yKey>> : k \in Unmatched})

C5_Witness ==
    /\ BatchMerged
    /\ Len(LastBatch) = 2
    /\ Unmatched = {1, 2}
    /\ SamePair(LastBatch[1], LastBatch[2])
    /\ Len(LastBase) >= 1
    /\ Len(charts) = Len(LastBase) + 1

\* the ways the completion call fails
FailureKinds == {"nokey", "network", "http", "empty"}

\* C6: when the completion call fails (no key, network error, non-OK status,
\* empty completion) the chart set is left as it was, loading ends, and the
\* one message appended after the user's message is the error notice
C6_AllOrNothing ==
    LastCompletion /\ LastOutcome.kind \in FailureKinds =>
        /\ charts = prevCharts
        /\ ~isLoading
        /\ error # "null"
        /\ Len(messages) >= 2
        /\ messages[Len(messages)] = Message("assistant", ErrorNotice)
        /\ messages[Len(messages) - 1].type = "user"

C6_Witness ==
    /\ LastCompletion
    /\ LastOutcome.kind = "empty"
    /\ Len(charts) >= 2
    /\ charts = prevCharts
    /\ messages[Len(messages)] = Message("assistant", ErrorNotice)

\* C7 (as stated): when the completion text does not parse, the reply shown
\* is the raw completion text
C7_RawTextReturned ==
    LastCompletion /\ LastOutcome.kind = "badjson" =>
        messages[Len(messages)] = Message("assistant", LastOutcome.text)

\* C7 (amended): when the completion text does not parse, the reply is the
\* fixed apology for an invalid response format, no error is raised and the
\* chart set is left as it was
C7_ApologyReturned ==
    LastCompletion /\ LastOutcome.kind = "badjson" =>
        /\ messages[Len(messages)] =
                Message("assistant",
                        "Sorry, I received an invalid response format. Please try again.")
        /\ messages[Len(messages) - 1].type = "user"
        /\ error = "null"
        /\ charts = prevCharts

C7_Witness ==
    /\ LastCompletion
    /\ LastOutcome.kind = "badjson"
    /\ Len(charts) >= 2
    /\ messages[Len(messages)].content # LastOutcome.text
    /\ messages[Len(messages)].content = InvalidFormatResponse

\* a parsed completion that is not an object with a list of well-formed charts
Malformed(value) ==
    /\ value.t = "object"
    /\ \/ value.charts.t \in {"string", "object"}
       \/ /\ value.charts.t = "array"
          /\ \E k \in 1..Len(value.charts.items) :
                \/ IsNullEntry(value.charts.items[k])
                \/ value.charts.items[k].data = None
                \/ value.charts.items[k].xKey = UNDEF

\* C8 (as stated): a parsed completion whose charts is not a list, or has a
\* null entry or an entry without data or xKey, raises no error and leaves
\* the chart set as it was
C8_MalformedIgnored ==
    LastCompletion /\ LastOutcome.kind = "json" /\ Malformed(LastOutcome.value) =>
        /\ charts = prevCharts
        /\ error = "null"
        /\ messages[Len(messages)] # Message("assistant", ErrorNotice)

----------------------------------------------------------------------------
(* Properties of the forecast (AutoDashboard.handleForecast) *)

\* the last step was a click on a Forecast button
LastForecast == lastOp.op = "forecast"
\* the chart of the button, as it was at the click
ForecastChart == lastOp.arg.chart
\* where the write-back lands: the first chart with the id of the button's chart
ForecastSlot ==
    CHOOSE t \in 1..Len(prevCharts) :
        /\ prevCharts[t].id = ForecastChart.id
        /\ \A j \in 1..(t - 1) : prevCharts[j].id # ForecastChart.id

HistoricalPoints ==
    IF ForecastChart.data = None THEN <<>>
    ELSE SelectSeq(Get(ForecastChart.data), LAMBDA p : ~p.isForecast)

\* min(12, ceil(0.3 n))
Horizon(n) ==
    LET c == CHOOSE k \in 0..n : 10 * k >= 3 * n /\ 10 * (k - 1) < 3 * n
    IN  IF c < 12 THEN c ELSE 12

\* C9: after a forecast of a chart with n >= 2 historical points, the series
\* is the n historical points followed by min(12, ceil(0.3 n)) forecast
\* points, and is the series a forecast of the historical points alone
\* gives: forecast points of an earlier forecast are neither kept nor used
C9_NoCompounding ==
    LastForecast /\ ForecastChart.yKey # UNDEF /\ Len(HistoricalPoints) >= 2 =>
        LET n == Len(HistoricalPoints)
            series == Get(charts[ForecastSlot].data)
        IN  /\ Len(series) = n + Horizon(n)
            /\ SubSeq(series, 1, n) = HistoricalPoints
            /\ \A j \in (n + 1)..Len(series) : series[j].isForecast
            /\ charts[ForecastSlot].data =
                    UpdatedChart([ForecastChart EXCEPT !.data = Some(HistoricalPoints)],
                                 lastOp.arg.rands).data

C9_Witness ==
    /\ LastForecast
    /\ ForecastChart.yKey # UNDEF
    /\ Len(HistoricalPoints) = LongLen
    /\ \E j \in 1..Len(Get(ForecastChart.data)) : Get(ForecastChart.data)[j].isForecast
    /\ Len(Get(charts[ForecastSlot].data)) = LongLen + 12

\* C10: a forecast of a chart with fewer than 2 historical points changes no
\* chart, does not ask for a regeneration and leaves forecastingChartId null
C10_InsufficientData ==
    LastForecast /\ Len(HistoricalPoints) < 2 =>
        /\ charts = prevCharts
        /\ ~lastOp.arg.regenerates
        /\ forecastingChartId = "null"

C10_Witness ==
    /\ LastForecast
    /\ Len(HistoricalPoints) = 1
    /\ charts = prevCharts
    /\ ~lastOp.arg.regenerates
    /\ forecastingChartId = "null"

\* C11: a forecast of a pie chart, of a scatter chart or of a chart without
\* yKey changes no chart and asks for no regeneration, and every chart that
\* carries a forecast point is a line, bar or area chart
C11_Eligibility ==
    /\ LastForecast
       /\ \/ ForecastChart.type \in {"pie", "scatter"}
          \/ ForecastChart.yKey \in {UNDEF, ""}
       => /\ charts = prevCharts
          /\ ~lastOp.arg.regenerates
    /\ \A i \in 1..Len(charts) :
            /\ charts[i].data # None
            /\ \E j \in 1..Len(Get(charts[i].data)) : Get(charts[i].data)[j].isForecast
            => charts[i].type \in {"line", "bar", "area"}

C11_Witness ==
    /\ LastForecast
    /\ ForecastChart.yKey = UNDEF
    /\ ForecastChart.data # None
    /\ Len(Get(ForecastChart.data)) >= 2
    /\ charts = prevCharts
    /\ \E i \in 1..Len(charts) : charts[i].type = "scatter"

\* C12 (as stated): once a forecast is applied, the chart set stays the
\* forecast one until the user next uploads, removes, regenerates, merges or
\* forecasts: the timer that fires after the forecast leaves the charts alone
C12_ForecastStays ==
    [][lastOp.op = "forecast" /\ lastOp.arg.regenerates /\ lastOp'.op = "timer"
            => charts' = charts]_vars

----------------------------------------------------------------------------
(* Properties of the profiler and the chart selector (Index) *)

\* the column profiles of the file are computed
Profiled == lastOp.op \in {"analyzed", "generated"}
\* the file the profiler was applied to
File == lastOp.arg
RowCount == Len(File.rows)
\* the cells of the c-th column, and those that are not missing
CellsOf(c) == [i \in 1..RowCount |-> File.rows[i][File.headers[c]]]
PresentCells(c) == SelectSeq(CellsOf(c), LAMBDA cell : cell.kind # "empty")
DistinctCount(c) == Cardinality({PresentCells(c)[i] : i \in 1..Len(PresentCells(c))})
AllParseAsNumber(c) ==
    \A i \in 1..Len(PresentCells(c)) : PresentCells(c)[i].kind = "num"
SomeDateLike(c) ==
    \E i \in 1..Len(PresentCells(c)) : IsDateLike(PresentCells(c)[i])
FewDistinct(c) == DistinctCount(c) <= 10 \/ 10 * DistinctCount(c) <= RowCount

\* C13 (as stated): for every file, one without rows included, every column
\* profile has a quality in 0..100 and a nullCount that with the count of
\* present values makes the row count
C13_ProfilerBounds ==
    Profiled =>
        \A c \in 1..Len(columns) :
            /\ columns[c].quality \in 0..100
            /\ columns[c].nullCount + Len(PresentCells(c)) = RowCount

\* C14 (as stated): a column whose values are all missing has type text,
\* quality 0 and no defined statistic
C14_AllMissingIsText ==
    Profiled =>
        \A c \in 1..Len(columns) :
            RowCount >= 1 /\ PresentCells(c) = <<>> =>
                /\ columns[c].type = "text"
                /\ columns[c].quality = 0
                /\ \A k \in DOMAIN columns[c].stats : columns[c].stats[k] = Undefined

\* C15: the type of a column is that of the first rule that holds, in the
\* order numerical (every present value parses as a number), temporal (some
\* present value is date-like), categorical (at most max(10, 10% of the rows)
\* distinct present values), text
C15_Priority ==
    Profiled =>
        \A c \in 1..Len(columns) :
            columns[c].type =
                IF AllParseAsNumber(c) THEN "numerical"
                ELSE IF SomeDateLike(c) THEN "temporal"
                ELSE IF FewDistinct(c) THEN "categorical"
                ELSE "text"

C15_Witness ==
    /\ Profiled
    /\ \E c \in 1..Len(columns) :
            /\ PresentCells(c) # <<>>
            /\ AllParseAsNumber(c)
            /\ SomeDateLike(c)
            /\ FewDistinct(c)
            /\ columns[c].type = "numerical"

\* a column with a present value that is neither a number nor date-like, and
\* without a date-like value
HasPlainText(c) ==
    /\ \E i \in 1..Len(PresentCells(c)) : PresentCells(c)[i].kind = "word"
    /\ ~SomeDateLike(c)

\* C16 (as stated): a column with a value that is neither numeric nor
\* date-like, no date-like value, and more distinct present values than 10%
\* of the rows is text, whatever the row count
C16_MixedIsText ==
    Profiled =>
        \A c \in 1..Len(columns) :
            HasPlainText(c) /\ 10 * DistinctCount(c) > RowCount =>
                columns[c].type = "text"

\* C16 (amended): such a column is text when it has more than 10 distinct
\* present values, and categorical when it has 10 or fewer
C16_MixedIsTextAboveTen ==
    Profiled =>
        \A c \in 1..Len(columns) :
            HasPlainText(c) /\ 10 * DistinctCount(c) > RowCount =>
                columns[c].type = IF DistinctCount(c) > 10 THEN "text" ELSE "categorical"

C16_Witness ==
    /\ Profiled
    /\ RowCount > 11
    /\ \E c \in 1..Len(columns) :
            /\ HasPlainText(c)
            /\ 10 * DistinctCount(c) > RowCount
            /\ DistinctCount(c) = 11
            /\ columns[c].type = "text"

\* the chart selector was applied
Generated == lastOp.op = "generated"
ColumnsOf(t) == SelectSeq(columns, LAMBDA c : c.type = t)
ChartsOf(t) == SelectSeq(charts, LAMBDA c : c.type = t)
TypeRank(t) == CASE t = "line" -> 1 [] t = "bar" -> 2 [] t = "scatter" -> 3 [] OTHER -> 4

\* C17: the chart selector returns at most 4 charts with distinct ids in the
\* order line, bar, scatter, area; each is present exactly when its columns
\* exist, uses the first columns of the required types, has xKey and yKey,
\* and is built from the first 50 rows only
C17_SelectorRules ==
    Generated =>
        /\ Len(charts) <= 4
        /\ \A i, j \in 1..Len(charts) :
                i < j => /\ charts[i].id # charts[j].id
                         /\ TypeRank(charts[i].type) < TypeRank(charts[j].type)
        /\ \A i \in 1..Len(charts) :
                /\ charts[i].type \in {"line", "bar", "scatter", "area"}
                /\ charts[i].xKey \notin {UNDEF, ""}
                /\ charts[i].yKey \notin {UNDEF, ""}
                /\ charts[i].data # None
                /\ Len(Get(charts[i].data)) <= 50
                /\ charts[i].type # "bar" =>
                        Len(Get(charts[i].data)) = IF RowCount < 50 THEN RowCount ELSE 50
        /\ ChartsOf("line") # <<>>
                <=> ColumnsOf("temporal") # <<>> /\ ColumnsOf("numerical") # <<>>
        /\ ChartsOf("bar") # <<>>
                <=> ColumnsOf("categorical") # <<>> /\ ColumnsOf("numerical") # <<>>
        /\ ChartsOf("scatter") # <<>> <=> Len(ColumnsOf("numerical")) >= 2
        /\ ChartsOf("area") # <<>> <=> ColumnsOf("numerical") # <<>>
        /\ \A i \in 1..Len(charts) :
                CASE charts[i].type = "line" ->
                        /\ charts[i].xKey = ColumnsOf("temporal")[1].name
                        /\ charts[i].yKey = ColumnsOf("numerical")[1].name
                  [] charts[i].type = "bar" ->
                        /\ charts[i].xKey = ColumnsOf("categorical")[1].name
                        /\ charts[i].yKey = ColumnsOf("numerical")[1].name
                  [] charts[i].type = "scatter" ->
                        /\ charts[i].xKey = ColumnsOf("numerical")[1].name
                        /\ charts[i].yKey = ColumnsOf("numerical")[2].name
                  [] OTHER ->
                        /\ charts[i].xKey = "index"
                        /\ charts[i].yKey = "value"
        /\ charts = generateAutoCharts(SubSeq(File.rows, 1, IF RowCount < 50 THEN RowCount ELSE 50),
                                       columns)

C17_Witness ==
    /\ Generated
    /\ RowCount > 50
    /\ Len(charts) = 4
    /\ \A i \in 1..4 : Len(Get(charts[i].data)) <= 50
    /\ Len(Get(charts[1].data)) = 50

----------------------------------------------------------------------------
(* Properties of the insights shown with a chart (generateChartInsights) *)

OwnInsights(chart) == IF chart.insights = None THEN <<>> ELSE Get(chart.insights)
PastPoints(chart) ==
    IF chart.data = None THEN <<>>
    ELSE SelectSeq(Get(chart.data), LAMBDA p : ~p.isForecast)

\* the first m entries of shown are computed ones and the rest are the
\* chart's own, in their order, starting once the computed ones are through
ComputedThenOwn(shown, computed, own) ==
    \E m \in 0..Len(shown) :
        /\ m <= Len(computed)
        /\ SubSeq(shown, 1, m) = SubSeq(computed, 1, m)
        /\ Len(shown) - m <= Len(own)
        /\ SubSeq(shown, m + 1, Len(shown)) = SubSeq(own, 1, Len(shown) - m)
        /\ m < Len(shown) => m = Len(computed)

\* C18: for every chart of the dashboard generateChartInsights returns at
\* most 5 insights, the computed ones before the chart's own, which keep
\* their order; for a chart without historical point it returns exactly one
\* insight, which says that there is no data
C18_InsightShape ==
    \A i \in 1..Len(charts) :
        LET shown == generateChartInsights(charts[i])
        IN  /\ Len(shown) <= 5
            /\ IF PastPoints(charts[i]) = <<>>
               THEN /\ Len(shown) = 1
                    /\ shown[1].k \in {"no-data", "no-historical-data"}
               ELSE ComputedThenOwn(shown,
                                    ComputedInsights(charts[i], PastPoints(charts[i])),
                                    OwnInsights(charts[i]))

C18_Witness ==
    \E i \in 1..Len(charts) :
        LET shown == generateChartInsights(charts[i])
            computed == ComputedInsights(charts[i], PastPoints(charts[i]))
        IN  /\ PastPoints(charts[i]) # <<>>
            /\ Len(computed) >= 2
            /\ Len(OwnInsights(charts[i])) >= 2
            /\ Len(computed) + Len(OwnInsights(charts[i])) > 5
            /\ Len(shown) = 5
            /\ shown[5] = OwnInsights(charts[i])[5 - Len(computed)]
            /\ \E j \in 1..Len(charts) : charts[j].data = None

----------------------------------------------------------------------------
(* Properties of the ownership of the chart set *)

\* C19 (as stated): neither the forecast nor the chat merge changes the
\* chart array it was given: after a forecast the array Index holds has the
\* elements it had before, and a completion changes it only by publishing
\* the merged set
C19_NoInPlaceMutation ==
    /\ LastForecast => charts = prevCharts
    /\ LastCompletion =>
            \/ charts = prevCharts
            \/ BatchMerged /\ charts = MergeAll(LastBase, LastBatch)

----------------------------------------------------------------------------
(* Properties of the completion request (chat-interface.tsx, queryGemini) *)

\* the address of the server proxy route
ProxyRoute == "/api/generate"

\* C20 (as stated): no message is sent with a prompt for a Gemini API key, and
\* every completion request in flight goes to the proxy route /api/generate
\* and carries no key
C20_NoKeyPrompt ==
    /\ lastOp.op = "send" => ~lastOp.arg.prompted
    /\ IsSome(inflight) /\ Get(inflight).fetch # NoFetch =>
            /\ Get(inflight).fetch.path = ProxyRoute
            /\ Get(inflight).fetch.key = NoApiKey

----------------------------------------------------------------------------
(* Properties of the forecast points (AutoDashboard.handleForecast) *)

\* the forecast of the last step reached its write-back
ForecastApplied ==
    LastForecast /\ ForecastChart.yKey # UNDEF /\ Len(HistoricalPoints) >= 2

\* the historical y values the forecast started from, in hundredths
PastValues == [j \in 1..Len(HistoricalPoints) |-> HistoricalPoints[j].y]

\* the points the forecast added
NewPoints ==
    LET series == Get(charts[ForecastSlot].data)
    IN  SubSeq(series, Len(HistoricalPoints) + 1, Len(series))

\* slope * (n + i - 1) + intercept of the least-squares line through
\* (0, y_0) .. (n - 1, y_{n-1}), from the normal equations, as [n, d] with d > 0
Predicted(values, i) ==
    LET n == Len(values)
        sx == SeqSum([j \in 1..n |-> j - 1])
        sxx == SeqSum([j \in 1..n |-> (j - 1) * (j - 1)])
        sy == SeqSum(values)
        sxy == SeqSum([j \in 1..n |-> (j - 1) * values[j]])
        det == n * sxx - sx * sx
    IN  [n |-> (n * sxy - sx * sy) * (n * (n + i - 1) - sx) + sy * det, d |-> n * det]

\* C21 (as stated): every forecast value is at least 0 and, when the
\* prediction slope * (n + i - 1) + intercept is positive, within 5% of it
C21_WithinFivePercent ==
    ForecastApplied =>
        \A i \in 1..Len(NewPoints) :
            LET p == Predicted(PastValues, i)
            IN  /\ NewPoints[i].y >= 0
                /\ p.n > 0 => 20 * Abs(NewPoints[i].y * p.d - p.n) <= p.n

\* C21 (amended): every forecast value is at least 0; it is 0 when the
\* prediction is not positive and otherwise differs from the prediction by
\* at most 2.5% of the prediction plus half a hundredth, the value being
\* rounded to two decimals; for 10, 20, 30 there is one forecast point and
\* its value is within 5% of 40
C21_JitterAndRounding ==
    ForecastApplied =>
        /\ \A i \in 1..Len(NewPoints) :
                LET p == Predicted(PastValues, i)
                IN  /\ NewPoints[i].y >= 0
                    /\ p.n <= 0 => NewPoints[i].y = 0
                    /\ p.n > 0 => 40 * Abs(NewPoints[i].y * p.d - p.n) <= p.n + 20 * p.d
        /\ PastValues = <<1000, 2000, 3000>> =>
                /\ Len(NewPoints) = 1
                /\ NewPoints[1].y \in 3800..4200

C21_Witness ==
    /\ ForecastApplied
    /\ PastValues = <<1000, 2000, 3000>>
    /\ Len(NewPoints) = 1
    /\ NewPoints[1].y # 4000
    /\ NewPoints[1].y \in 3800..4200

\* the last historical x value of the forecast chart
LastX == HistoricalPoints[Len(HistoricalPoints)].x

\* the text of a label: what precedes the digits, the digits, what follows
LabelText(lab) == <<lab.pre, lab.num, lab.suf>>

\* C22 (as stated): the i-th forecast label is L + i for a number L, L with
\* its run of digits replaced by run + i for a text with digits, and the
\* text "Forecast i" in every other case, a text without digit included
C22_ForecastWordOtherwise ==
    ForecastApplied =>
        \A i \in 1..Len(NewPoints) :
            LET x == NewPoints[i].x
            IN  IF LastX.kind = "num" THEN x.kind = "num" /\ x.num = LastX.num + i
                ELSE IF LastX.kind = "str" /\ LastX.num # NoDigits
                THEN x.kind = "str" /\ LabelText(x) = <<LastX.pre, LastX.num + i, LastX.suf>>
                ELSE x.kind = "str" /\ LabelText(x) = <<"Forecast ", i, "">>

\* C22 (amended): as stated for a number and for a text with digits; the
\* label is the text "F i" for a text without digit and the text
\* "Forecast i" when L is neither a number nor a text
C22_Labels ==
    ForecastApplied =>
        \A i \in 1..Len(NewPoints) :
            LET x == NewPoints[i].x
            IN  IF LastX.kind = "num" THEN x.kind = "num" /\ x.num = LastX.num + i
                ELSE IF LastX.kind = "str" /\ LastX.num # NoDigits
                THEN x.kind = "str" /\ LabelText(x) = <<LastX.pre, LastX.num + i, LastX.suf>>
                ELSE IF LastX.kind = "str"
                THEN x.kind = "str" /\ LabelText(x) = <<"F", i, "">>
                ELSE x.kind = "str" /\ LabelText(x) = <<"Forecast ", i, "">>

C22_Witness ==
    /\ ForecastApplied
    /\ Len(NewPoints) = 2
    /\ LastX = StrLabel("West", NoDigits, "")
    /\ LabelText(NewPoints[2].x) = <<"F", 2, "">>

----------------------------------------------------------------------------
(* Properties of the bar chart of the chart selector (Index.generateAutoCharts) *)

\* the chart selector produced a bar chart
HasBar == Generated /\ \E i \in 1..Len(charts) : charts[i].id = "bar-1"
Bar == charts[CHOOSE i \in 1..Len(charts) : charts[i].id = "bar-1"]
\* the first 50 rows of the file
Sample == SubSeq(File.rows, 1, IF RowCount < 50 THEN RowCount ELSE 50)
\* the category and the number of the i-th row of the sample
CategoryAt(i) == CellLabel(Sample[i][Bar.xKey])
NumberAt(i) == CellNumber(Sample[i][Bar.yKey])
\* the first row of the sample with the category
FirstRow(lab) == CHOOSE i \in 1..Len(Sample) :
                    CategoryAt(i) = lab /\ \A j \in 1..(i - 1) : CategoryAt(j) # lab

\* C23 (as stated): the bar chart has one point per distinct category of the
\* sample, in the order of first occurrence, each valued with the sum of the
\* numerical column over the rows of its category, and the values add up to
\* the sum of the column over the sample
C23_BarGrouping ==
    HasBar =>
        LET points == Get(Bar.data)
        IN  /\ Len(points) = Cardinality({CategoryAt(i) : i \in 1..Len(Sample)})
            /\ \A k \in 1..Len(points) :
                    /\ \E i \in 1..Len(Sample) : CategoryAt(i) = points[k].x
                    /\ points[k].y =
                            SeqSum([i \in 1..Len(Sample) |->
                                        IF CategoryAt(i) = points[k].x THEN NumberAt(i) ELSE 0])
            /\ \A k, l \in 1..Len(points) :
                    k < l => FirstRow(points[k].x) < FirstRow(points[l].x)
            /\ SeqSum([k \in 1..Len(points) |-> points[k].y])
                    = SeqSum([i \in 1..Len(Sample) |-> NumberAt(i)])

----------------------------------------------------------------------------
(* Properties of the computed insights (AutoDashboard.generateChartInsights) *)

\* the historical y values of a chart, in hundredths
PastValuesOf(chart) == [j \in 1..Len(PastPoints(chart)) |-> PastPoints(chart)[j].y]

\* t, in tenths of a percent, is n / d * 100 rounded to one decimal (n >= 0, d > 0)
IsPercentOf(t, n, d) == 2 * Abs(t * d - 1000 * n) <= d

\* C24 (as stated): the first insight of a line or area chart with a
\* historical point reports growth, decline or a stable trend as the last
\* historical value is above, below or equal to the first, with the finite
\* percentage |last - first| / |first| * 100; for 100, 200 it is 100% growth
C24_TrendInsight ==
    \A i \in 1..Len(charts) :
        charts[i].type \in {"line", "area"} /\ PastPoints(charts[i]) # <<>> =>
            LET values == PastValuesOf(charts[i])
                firstValue == values[1]
                lastValue == values[Len(values)]
                trend == generateChartInsights(charts[i])[1]
            IN  /\ trend.k = IF lastValue > firstValue THEN "trend-up"
                              ELSE IF lastValue < firstValue THEN "trend-down"
                              ELSE "trend-stable"
                /\ lastValue # firstValue =>
                        /\ firstValue # 0
                        /\ IsPercentOf(trend.a, Abs(lastValue - firstValue), Abs(firstValue))
                /\ values = <<10000, 20000>> => trend.k = "trend-up" /\ trend.a = 1000

\* C25 (as stated): the first insight of a pie chart with historical points
\* names the category of the largest value, read at the chart's colorKey,
\* with the share max / total * 100; for A = 80 and B = 20 it is A with 80%
C25_PieDominant ==
    \A i \in 1..Len(charts) :
        charts[i].type = "pie" /\ PastPoints(charts[i]) # <<>> =>
            LET values == PastValuesOf(charts[i])
                total == SeqSum(values)
                largest == CHOOSE j \in 1..Len(values) :
                                /\ \A k \in 1..Len(values) : values[k] <= values[j]
                                /\ \A k \in 1..(j - 1) : values[k] < values[j]
                dominant == generateChartInsights(charts[i])[1]
            IN  /\ dominant.k = "pie-dominant"
                /\ dominant.l = PastPoints(charts[i])[largest].c
                /\ total > 0 => IsPercentOf(dominant.b, values[largest], total)
                /\ values = <<8000, 2000>> => dominant.b = 800

----------------------------------------------------------------------------
(* Properties of the page across its handlers *)

\* C26 (as stated): a completion that carries proposals is merged into the
\* chart set the dashboard has when the completion arrives, whatever
\* happened to the chart set since the message was sent
C26_NoLostUpdate ==
    BatchMerged /\ ~MergeThrows(LastBatch) => charts = MergeAll(prevCharts, LastBatch)

\* C27 (as stated): while no dataset is loaded the chart set is empty
C27_NoChartsWithoutData ==
    uploadedData = NoData => charts = <<>>

\* the messages of the conversation of the given type
CountOf(type) == Cardinality({i \in 1..Len(messages) : messages[i].type = type})

\* C28 (as stated): besides the greeting there is never more than one
\* assistant message per user message, and exactly one per user message
\* whenever no request is being processed
C28_OneReply ==
    /\ CountOf("assistant") <= CountOf("user") + 1
    /\ ~isLoading => CountOf("assistant") = CountOf("user") + 1

\* C29 (as stated): the ids of the charts of the dashboard are pairwise
\* distinct, and a forecast replaces the chart of the button
C29_UniqueIds ==
    /\ \A i, j \in 1..Len(charts) : charts[i].id = charts[j].id => i = j
    /\ LastForecast /\ charts # prevCharts => ForecastSlot = lastOp.arg.index

----------------------------------------------------------------------------
(* Properties of the insights shown after a forecast *)

\* the insights the dashboard renders for the chart the forecast wrote
ShownAfterForecast == generateChartInsights(charts[ForecastSlot])

\* C30 (as stated): after a forecast was applied to a chart, the insights
\* rendered for it hold the forecast-trend insight exactly once and no
\* insight twice
C30_ForecastInsightShown ==
    ForecastApplied =>
        /\ Cardinality({i \in 1..Len(ShownAfterForecast) :
                ShownAfterForecast[i].k \in {"forecast-positive", "forecast-negative"}}) = 1
        /\ \A i, j \in 1..Len(ShownAfterForecast) :
                ShownAfterForecast[i] = ShownAfterForecast[j] => i = j

====
